---- MODULE Spec2Model ----
(***************************************************************************)
(* A model of icoscp.cpb.dobj.Dobj (src/icoscp/cpb/dobj.py): one handle on *)
(* a data object, its metadata resolution (__getPayload), its column      *)
(* selection (__setColumns), its payload access (__getColumns) and its    *)
(* decoder (__unpackRawData).                                              *)
(*                                                                         *)
(* Python values are modelled as follows.                                 *)
(*   - a pandas frame is a sequence of rows; a row of _info2 carries its  *)
(*     index label (idx), because DataFrame.drop works on labels;         *)
(*   - None / NaN are tagged records ([none |-> TRUE, ...]) so that every  *)
(*     field keeps one TLA+ type;                                          *)
(*   - an exception is the field exc of an outcome record: exc = "none"   *)
(*     is a normal return, anything else names the exception raised, and  *)
(*     the handle in the outcome is the handle as the raise left it;      *)
(*   - the chained assignments of __getPayload (lines 228, 240-241) write *)
(*     through to the frame, as they do on the single-dtype object frames *)
(*     the metadata queries return;                                        *)
(*   - struct.unpack_from reads the front of a buffer at least as long as *)
(*     the format and raises struct.error on a shorter one;               *)
(*   - _info3 (the station query of __getColumns) is counted as a query   *)
(*     and not stored: nothing reads it.                                   *)
(***************************************************************************)
EXTENDS Integers, Sequences, FiniteSets, TLC

VARIABLES
    self,   \* the fields of the Dobj handle
    store,  \* what the metadata collaborator answers, per identifier
    last,   \* the last public call: its arguments and its outcome
    lastGet \* a call of country.get: its keywords, the services' answers, its outcome

vars == <<self, store, last, lastGet>>

(***************************************************************************)
(* Bounds of the model.                                                    *)
(***************************************************************************)
\* declared columns per object specification (resolver inputs)
MaxDecl == 3
\* names in a realized column-name list (resolver inputs)
MaxReal == 2
\* selectors in one getColumns(columns) request
MaxSel == 2
\* by how many bytes a served buffer may miss the planned length
MaxSkew == 1
\* declared columns of an object of the decoder specification
MaxCols == 3

(***************************************************************************)
(* Strings.  Python compares str by code point; Alphabet lists every name *)
(* the model uses in that order (sorted() of the same list in Python).    *)
(***************************************************************************)
Alphabet ==
    << "", ".*", "FLAG", "Flag", "TIMESTAMP", "ZZ", "a", "a.", "a1", "a2",
       "b", "c", "co2", "flag", "zz" >>

Rank(name) == CHOOSE i \in 1..Len(Alphabet) : Alphabet[i] = name

\* a comparison of names that keeps the letter case
upper_verbatim(name) == name

\* str.upper() on the names of Alphabet
upper(name) ==
    CASE name = "Flag" -> "FLAG"
      [] name = "flag" -> "FLAG"
      [] name = "zz"   -> "ZZ"
      [] name = "a"    -> "A"
      [] name = "a."   -> "A."
      [] name = "a1"   -> "A1"
      [] name = "a2"   -> "A2"
      [] name = "b"    -> "B"
      [] name = "c"    -> "C"
      [] name = "co2"  -> "CO2"
      [] OTHER         -> name

\* re.match(r, c): the pattern must match at the start of c.
\*   ".*" matches every string; "a." matches an 'a' followed by one more character.
re_match(r, c) ==
    CASE r = ".*" -> TRUE
      [] r = "a." -> c \in {"a.", "a1", "a2"}
      [] OTHER    -> FALSE

Elems(s) == {s[i] : i \in 1..Len(s)}

(***************************************************************************)
(* icoscp.cpb.dtype_dict (not among the sources): the type mapping table.  *)
(***************************************************************************)
\* mapDataTypesCP: declared value format -> decode kind; raises for an unknown format
mapDataTypesCP(f) ==
    CASE f = "int32"   -> [ok |-> TRUE,  kind |-> "INT"]
      [] f = "float64" -> [ok |-> TRUE,  kind |-> "DOUBLE"]
      [] f = "bmpChar" -> [ok |-> TRUE,  kind |-> "CHAR"]
      [] OTHER         -> [ok |-> FALSE, kind |-> ""]

\* structTypes(kind, n): the token "n repeats of kind"
structTypes(kind, n) == [kind |-> kind, n |-> n]

\* wire width in bytes of one scalar of a kind (struct.calcsize of its code)
width(kind) ==
    CASE kind = "INT"    -> 4
      [] kind = "DOUBLE" -> 8
      [] kind = "CHAR"   -> 2
      [] OTHER           -> 0

(***************************************************************************)
(* The handle.                                                             *)
(***************************************************************************)
NoneSel == [none |-> TRUE, idx |-> <<>>]
Sel(s) == [none |-> FALSE, idx |-> s]
\* Python truthiness of _colSelected: None and [] are both false
Truthy(sel) == ~sel.none /\ Len(sel.idx) > 0

NullNames == [null |-> TRUE, names |-> <<>>]
Names(s) == [null |-> FALSE, names |-> s]

EmptyFrame == [src |-> "", cols |-> <<>>, rows |-> 0]
\* DataFrame.empty: no columns or no rows
empty(df) == Len(df.cols) = 0 \/ df.rows = 0

NoJson == [tableId |-> "", columns |-> <<>>, size |-> 0, columnNumbers |-> NoneSel,
           subFolder |-> ""]

\* what a call has done outside the handle: the metadata queries sent, the
\* payload fetch (none, local, remote, or failed: a non-success response), the
\* usage requests sent, the buffers handed to the decoder, and for the last of
\* these its length and the length the unpack descriptor implies
NoIO == [sparql |-> 0, fetch |-> "none", portal |-> 0, unpack |-> 0,
         rawlen |-> 0, planned |-> 0]

\* Dobj.__init__ with digitalObject = ''
__init__ ==
    [ _colSelected    |-> NoneSel,
      _endian         |-> "big",
      _dtconvert      |-> TRUE,
      _info1          |-> <<>>,
      _info2          |-> <<>>,
      _colSchema      |-> <<>>,
      _dtypeStruct    |-> [endian |-> "", tokens |-> <<>>],
      _json           |-> NoJson,
      _islocal        |-> "None",
      _dobj           |-> "",
      _dobjSet        |-> FALSE,
      _dobjValid      |-> FALSE,
      citation        |-> "None",
      _data           |-> EmptyFrame,
      _datapersistent |-> TRUE ]

\* outcome of a method: the handle after it, the requests sent, the exception, the value
Out(s, io, exc, ret) == [self |-> s, io |-> io, exc |-> exc, ret |-> ret]
NoValue == [kind |-> "None", df |-> EmptyFrame]
False == [kind |-> "False", df |-> EmptyFrame]
True == [kind |-> "True", df |-> EmptyFrame]
Frame(df) == [kind |-> "DataFrame", df |-> df]

(***************************************************************************)
(* Schema resolution: lines 216-255 of __getPayload.                       *)
(***************************************************************************)
\* a frame as a query returns it, or as concat(ignore_index=True) leaves it:
\* labels 0..n-1
reset_index(rows) == [i \in 1..Len(rows) |-> [rows[i] EXCEPT !.idx = i - 1]]

\* lines 219-225: '[...]' stripped, quotes removed, split(','), each entry stripped.
\* The realized list is given as its entries; ''.split(',') is [''], so an empty
\* list literal yields one empty name.
cleanColumnNames(raw) == IF Len(raw) = 0 THEN << "" >> ELSE raw

\* lines 233-242, from the k-th (regex row, realized name) pair on: every match
\* appends a copy of the regex row named after the realized name.
RECURSIVE expandRegexFrom(_, _, _, _)
expandRegexFrom(info2, regexrow, colList, k) ==
    IF k > Len(regexrow) * Len(colList) THEN info2
    ELSE LET i == ((k - 1) \div Len(colList)) + 1
             c == colList[((k - 1) % Len(colList)) + 1]
             row == [regexrow[i] EXCEPT !.colName = c, !.isRegex = "null"]
         IN IF re_match(regexrow[i].colName, c)
            THEN expandRegexFrom(reset_index(Append(info2, row)), regexrow, colList, k + 1)
            ELSE expandRegexFrom(info2, regexrow, colList, k + 1)

IsRegexRow(r) == r.isRegex = "true"
NotRegexRow(r) == r.isRegex # "true"

\* lines 231-245: runs only if some isRegex cell is non-null
expandRegex(info2, colList) ==
    IF \E i \in 1..Len(info2) : info2[i].isRegex # "null"
    THEN SelectSeq(expandRegexFrom(info2, SelectSeq(info2, IsRegexRow), colList, 1),
                   NotRegexRow)
    ELSE info2

\* DataFrame.drop(i): the rows labelled i go; KeyError if there is none
HasLabel(rows, i) == \E k \in 1..Len(rows) : rows[k].idx = i
dropLabel(rows, i) ==
    LET keep(r) == r.idx # i IN SelectSeq(rows, keep)

\* lines 249-251, from position k of the column iterated (names, fixed when the
\* loop starts): a name not in colList drops the row labelled with its position.
RECURSIVE dropUnrealizedFrom(_, _, _, _)
dropUnrealizedFrom(info2, names, colList, k) ==
    IF k > Len(names) THEN [exc |-> "none", rows |-> info2]
    ELSE IF names[k] \in Elems(colList)
         THEN dropUnrealizedFrom(info2, names, colList, k + 1)
         ELSE IF HasLabel(info2, k - 1)
              THEN dropUnrealizedFrom(dropLabel(info2, k - 1), names, colList, k + 1)
              ELSE [exc |-> "KeyError", rows |-> info2]

dropUnrealized(info2, colList) ==
    dropUnrealizedFrom(info2, [i \in 1..Len(info2) |-> info2[i].colName], colList, 1)

\* line 255: sort_values(by='colName'); rows with equal names keep their order
RECURSIVE insertSorted(_, _)
insertSorted(sorted, r) ==
    IF Len(sorted) = 0 THEN << r >>
    ELSE IF Rank(sorted[Len(sorted)].colName) <= Rank(r.colName)
         THEN Append(sorted, r)
         ELSE Append(insertSorted(SubSeq(sorted, 1, Len(sorted) - 1), r),
                     sorted[Len(sorted)])

RECURSIVE sortFrom(_, _, _)
sortFrom(rows, acc, k) ==
    IF k > Len(rows) THEN acc ELSE sortFrom(rows, insertSorted(acc, rows[k]), k + 1)

\* a resolver that leaves the rows in the order of the metadata query
sort_values_skipped(rows) == rows

sort_values(rows) == sortFrom(rows, <<>>, 1)

(***************************************************************************)
(* The binary plan: lines 257-283 of __getPayload.                         *)
(***************************************************************************)
\* list(range(0, n))
range(n) == [i \in 1..n |-> i - 1]

\* lines 264-269, from row k on: the schema built so far stays on the handle
\* when a format has no decode kind
RECURSIVE colSchemaFrom(_, _, _)
colSchemaFrom(info2, acc, k) ==
    IF k > Len(info2) THEN [exc |-> "none", schema |-> acc]
    ELSE LET m == mapDataTypesCP(info2[k].valFormat)
         IN IF m.ok THEN colSchemaFrom(info2, Append(acc, m.kind), k + 1)
            ELSE [exc |-> "dtype_dict", schema |-> acc]

\* dtype_dict.structEndian: the byte-order mark of the descriptor
structEndian(endian) == IF endian = "big" THEN ">" ELSE "<"

\* lines 271-275: one token per selected index, in the order of the selection
dtypeStructOf(colSchema, sel, nRows, endian) ==
    [endian |-> structEndian(endian),
     tokens |-> [k \in 1..Len(sel) |-> structTypes(colSchema[sel[k] + 1], nRows)]]

\* lines 278-283
jsonOf(s) ==
    [tableId       |-> s._info1[1].dobj,
     columns       |-> s._colSchema,
     size          |-> s._info1[1].nRows,
     columnNumbers |-> s._colSelected,
     subFolder     |-> s._info2[1].objFormat]

(***************************************************************************)
(* __getPayload (lines 181-294): three metadata queries, schema resolution,*)
(* the unpack descriptor and the remote-fetch descriptor.  st is the       *)
(* metadata store the queries are answered from.                           *)
(***************************************************************************)
__getPayload(s0, io0, st) ==
    IF ~s0._dobjSet THEN Out(s0, io0, "none", NoValue)
    ELSE
    LET meta == st[s0._dobj]
        io1 == [io0 EXCEPT !.sparql = @ + 1]
        s1 == [s0 EXCEPT !._info1 = meta.info1]
    IN
    IF Len(s1._info1) = 0
    THEN Out([s1 EXCEPT !._dobjValid = FALSE], io1, "none", NoValue)
    ELSE
    LET io2 == [io1 EXCEPT !.sparql = @ + 1]
        raw == s1._info1[1].columnNames
        colList == cleanColumnNames(raw.names)
        s2 == [s1 EXCEPT
                 !._info2 = reset_index(meta.info2),
                 !._info1 = IF raw.null THEN @
                            ELSE << [@[1] EXCEPT !.columnNames = Names(colList)] >>]
        expanded == IF raw.null THEN s2._info2 ELSE expandRegex(s2._info2, colList)
        dropped == IF raw.null THEN [exc |-> "none", rows |-> expanded]
                   ELSE dropUnrealized(expanded, colList)
    IN
    IF dropped.exc # "none"
    THEN Out([s2 EXCEPT !._info2 = dropped.rows], io2, dropped.exc, NoValue)
    ELSE
    LET s3 == [s2 EXCEPT
                 !._info2 = sort_values(dropped.rows),
                 !._colSelected = IF Truthy(@) THEN @
                                  ELSE Sel(range(Len(dropped.rows)))]
        cs == colSchemaFrom(s3._info2, <<>>, 1)
        s4 == [s3 EXCEPT !._colSchema = cs.schema]
        sel == s4._colSelected.idx
    IN
    IF cs.exc # "none" THEN Out(s4, io2, cs.exc, NoValue)
    ELSE IF \E k \in 1..Len(sel) : sel[k] >= Len(s4._colSchema)
    THEN Out(s4, io2, "IndexError", NoValue)
    ELSE
    LET s5 == [s4 EXCEPT !._dtypeStruct =
                 dtypeStructOf(s4._colSchema, sel, s4._info1[1].nRows, s4._endian)]
    IN
    IF Len(s5._info2) = 0 THEN Out(s5, io2, "IndexError", NoValue)
    ELSE
    LET io3 == [io2 EXCEPT !.sparql = @ + 1]
        s6 == [s5 EXCEPT
                 !._json = jsonOf(s5),
                 !.citation = IF meta.cit = "" THEN "no citation available ..."
                              ELSE meta.cit,
                 !._dobjValid = TRUE]
    IN Out(s6, io3, "none", NoValue)

\* a setter that binds the identifier and leaves the resolution for later
dobj_setter_lazy(s, io, digitalObject, st) ==
    IF digitalObject = ""
    THEN Out([s EXCEPT !._dobjSet = FALSE], io, "none", NoValue)
    ELSE Out([s EXCEPT !._dobj = digitalObject, !._dobjSet = TRUE], io, "none", NoValue)

\* the dobj setter (lines 74-82)
dobj_setter(s, io, digitalObject, st) ==
    IF digitalObject = ""
    THEN Out([s EXCEPT !._dobjSet = FALSE], io, "none", NoValue)
    ELSE __getPayload([s EXCEPT !._dobj = digitalObject, !._dobjSet = TRUE], io, st)

\* the valid property (lines 92-94)
valid(s) == s._dobjValid

\* the colNames property (lines 104-108), as a list; its callers in the model
\* read it on a valid handle only (on another it is Python None)
colNames(s) == [i \in 1..Len(s._info2) |-> s._info2[i].colName]

(***************************************************************************)
(* __setColumns (lines 405-455).                                           *)
(***************************************************************************)
\* the columns argument: None, or a list of selectors
NoColumns == [none |-> TRUE, list |-> <<>>]
Columns(list) == [none |-> FALSE, list |-> list]

\* a selector of a columns list: a str or an int
str(name) == [t |-> "str", s |-> name, n |-> 0]
int(n) == [t |-> "int", s |-> "", n |-> n]

\* the local idx before its first assignment
Unbound == -1

\* list.index(x): the first position of x, from 0
index(list, x) == (CHOOSE i \in 1..Len(list) : list[i] = x /\ \A j \in 1..(i - 1) : list[j] # x) - 1

\* lines 440-448, from the k-th selector on.  idx is assigned only when the
\* selector resolves; line 447 then reads whatever idx holds.
RECURSIVE selectFrom(_, _, _, _, _)
selectFrom(names, columns, colSelected, idx, k) ==
    IF k > Len(columns) THEN [exc |-> "none", colSelected |-> colSelected]
    ELSE LET c == columns[k]
             idx1 == IF c.t = "str" /\ upper(c.s) \in Elems(names)
                     THEN index(names, upper(c.s))
                     ELSE IF c.t = "int" /\ c.n \in 0..(Len(names) - 1)
                          THEN c.n
                          ELSE idx
         IN IF idx1 = Unbound
            THEN [exc |-> "UnboundLocalError", colSelected |-> colSelected]
            ELSE selectFrom(names, columns,
                            IF idx1 \in Elems(colSelected) THEN colSelected
                            ELSE Append(colSelected, idx1),
                            idx1, k + 1)

__setColumns(s, io, columns) ==
    IF ~s._dobjValid THEN Out(s, io, "none", False)
    ELSE IF columns.none THEN Out([s EXCEPT !._colSelected = NoneSel], io, "none", True)
    ELSE
    LET names == [i \in 1..Len(s._info2) |-> upper(colNames(s)[i])]
        r == selectFrom(names, columns.list, <<>>, Unbound, 1)
    IN IF r.exc # "none" THEN Out(s, io, r.exc, NoValue)
       ELSE IF Len(r.colSelected) = 0 THEN Out(s, io, "none", False)
       ELSE Out([s EXCEPT !._colSelected = Sel(r.colSelected)], io, "none", True)

(***************************************************************************)
(* __unpackRawData (lines 337-385).  A raw buffer is [src, len]: the       *)
(* object whose payload it is and its length in bytes.  A decoded frame is *)
(* [src, cols, rows]; a column records its name, its kind and the run of   *)
(* rows scalars (counted from 0) of the flat sequence it was cut from.     *)
(***************************************************************************)
RECURSIVE Sum(_, _)
Sum(f, k) == IF k = 0 THEN 0 ELSE f[k] + Sum(f, k - 1)

\* struct.calcsize(fmt): no padding under an explicit byte order
calcsize(fmt) ==
    Sum([k \in 1..Len(fmt.tokens) |-> fmt.tokens[k].n * width(fmt.tokens[k].kind)],
        Len(fmt.tokens))

\* the number of scalars struct.unpack_from(fmt, ...) returns
scalars(fmt) == Sum([k \in 1..Len(fmt.tokens) |-> fmt.tokens[k].n], Len(fmt.tokens))

Min(a, b) == IF a < b THEN a ELSE b

\* df[name] = ...: a new name is appended, an existing one is overwritten in place
setColumn(cols, col) ==
    IF \E i \in 1..Len(cols) : cols[i].name = col.name
    THEN [i \in 1..Len(cols) |-> IF cols[i].name = col.name THEN col ELSE cols[i]]
    ELSE Append(cols, col)

\* what struct.unpack_from returns for a token: a float for a DOUBLE token,
\* an int for an INT token and for a CHAR token (an unsigned 16-bit code)
valueKind(kind) == IF kind = "DOUBLE" THEN "DOUBLE" ELSE "INT"

\* the token that yields the j-th scalar (from 1) of the unpacked sequence,
\* counting from token k
RECURSIVE tokenAt(_, _, _)
tokenAt(tokens, j, k) ==
    IF j <= tokens[k].n THEN k ELSE tokenAt(tokens, j - tokens[k].n, k + 1)

\* data[lo:hi]: the kinds of the tokens that slice of the unpacked sequence
\* comes from
runTokens(fmt, lo, hi) ==
    {fmt.tokens[tokenAt(fmt.tokens, j, 1)].kind : j \in (lo + 1)..hi}

\* line 350, chr(i) for every i of data[lo:hi]: raises TypeError on a float
\* and ValueError on an int outside 0..0x10FFFF.  The scalars of a CHAR
\* token are 16-bit codes; rawData.nochr are the positions (from 1) of the
\* unpacked sequence at which the buffer holds another int.
chrRaises(fmt, lo, hi, rawData) ==
    \E j \in (lo + 1)..hi :
        \/ fmt.tokens[tokenAt(fmt.tokens, j, 1)].kind = "DOUBLE"
        \/ /\ fmt.tokens[tokenAt(fmt.tokens, j, 1)].kind = "INT"
           /\ j \in rawData.nochr

\* lines 346-351, from the k-th selected index on.  The k-th run of rows
\* scalars is stored under the name of the k-th selected column; its values
\* are what the descriptor unpacked there, turned into characters when the
\* schema kind of the column is CHAR.  A column of ints and floats is a
\* column of floats; an empty run is recorded under the schema kind.  An
\* index outside the schema raises, as does a list whose length differs
\* from the frame's; every exception of the loop is re-raised as
\* Exception('_unpackRawData').
RECURSIVE sliceFrom(_, _, _, _, _)
sliceFrom(s, rawData, rows, df, k) ==
    LET sel == s._colSelected.idx
        total == scalars(s._dtypeStruct)
    IN
    IF k > Len(sel) THEN [exc |-> "none", df |-> df]
    ELSE LET col == sel[k]
             lo == Min((k - 1) * rows, total)
             hi == Min(k * rows, total)
             n == hi - lo
             tokenKinds == runTokens(s._dtypeStruct, lo, hi)
             kinds == {valueKind(tk) : tk \in tokenKinds}
         IN IF col >= Len(s._colSchema) \/ col >= Len(s._info2)
               \/ (Len(df.cols) > 0 /\ n # df.rows)
            THEN [exc |-> "_unpackRawData", df |-> df]
            ELSE IF s._colSchema[col + 1] = "CHAR"
                    /\ chrRaises(s._dtypeStruct, lo, hi, rawData)
            THEN [exc |-> "_unpackRawData", df |-> df]
            ELSE sliceFrom(s, rawData, rows,
                           [df EXCEPT
                              !.cols = setColumn(@,
                                 [name |-> s._info2[col + 1].colName,
                                  kind |-> IF s._colSchema[col + 1] = "CHAR" THEN "str"
                                           ELSE IF kinds = {} THEN s._colSchema[col + 1]
                                           ELSE IF "DOUBLE" \in kinds THEN "DOUBLE"
                                           ELSE "INT",
                                  run  |-> k - 1]),
                              !.rows = n],
                           k + 1)

\* lines 361-374, pd.to_datetime on a column named TIMESTAMP (unit ms), date
\* (unit D) or time (unit s), whatever its kind.  rawData.nodate are the
\* positions of the unpacked sequence at which the buffer holds a value the
\* conversion of the column that reads it cannot take: in a column of
\* characters a character that is no number, in a column of numbers a float,
\* or for the unit D a 32-bit int, outside the range of datetime64[ns] (a
\* 16-bit code is in range for every unit, a 32-bit int for ms and s).
to_datetimeRaises(s, col, rows, rawData) ==
    /\ s._dtconvert
    /\ col.name \in {"TIMESTAMP", "date", "time"}
    /\ \E j \in (Min(col.run * rows, scalars(s._dtypeStruct)) + 1)
                ..Min((col.run + 1) * rows, scalars(s._dtypeStruct)) :
          /\ j \in rawData.nodate
          /\ \/ col.kind = "str"
             \/ s._dtypeStruct.tokens[tokenAt(s._dtypeStruct.tokens, j, 1)].kind = "DOUBLE"
             \/ /\ s._dtypeStruct.tokens[tokenAt(s._dtypeStruct.tokens, j, 1)].kind = "INT"
                /\ col.name = "date"

\* the exception of the conversion of the column called name: ValueError for
\* a character that is no number, OutOfBoundsDatetime for a number
to_datetimeExc(s, df, name, rows, rawData) ==
    LET bad == {i \in 1..Len(df.cols) :
                   df.cols[i].name = name /\ to_datetimeRaises(s, df.cols[i], rows, rawData)}
    IN IF bad = {} THEN "none"
       ELSE IF \E i \in bad : df.cols[i].kind = "str" THEN "ValueError"
       ELSE "OutOfBoundsDatetime"

\* lines 361-374 in their order: TIMESTAMP, then date, then time
convertExc(s, df, rows, rawData) ==
    IF to_datetimeExc(s, df, "TIMESTAMP", rows, rawData) # "none"
    THEN to_datetimeExc(s, df, "TIMESTAMP", rows, rawData)
    ELSE IF to_datetimeExc(s, df, "date", rows, rawData) # "none"
    THEN to_datetimeExc(s, df, "date", rows, rawData)
    ELSE to_datetimeExc(s, df, "time", rows, rawData)

\* lines 361-374: what the date and time conversions turn a column into
postProcess(col, dtconvert) ==
    [col EXCEPT !.kind =
        IF col.name = "TIMESTAMP" /\ dtconvert THEN "datetime"
        ELSE IF col.name = "date" /\ dtconvert THEN "datetime"
        ELSE IF col.name = "time" /\ dtconvert THEN "time"
        ELSE @]

\* a decoder that leaves the columns in the order they were assembled in
reorder_skipped(cols, names) == cols

\* df[names]: the named columns in that order; KeyError if one is missing
reorder(cols, names) ==
    [i \in 1..Len(names) |->
        cols[CHOOSE k \in 1..Len(cols) : cols[k].name = names[i]]]

__unpackRawData(s, io, rawData) ==
    LET io1 == [io EXCEPT !.unpack = @ + 1, !.rawlen = rawData.len,
                          !.planned = calcsize(s._dtypeStruct)] IN
    IF rawData.len < calcsize(s._dtypeStruct) THEN Out(s, io1, "struct.error", NoValue)
    ELSE IF Len(s._info1) = 0 THEN Out(s, io1, "TypeError", NoValue)
    ELSE IF s._colSelected.none THEN Out(s, io1, "_unpackRawData", NoValue)
    ELSE
    LET rows == s._info1[1].nRows
        cut == sliceFrom(s, rawData, rows,
                         [src |-> rawData.src, cols |-> <<>>, rows |-> 0], 1)
    IN
    IF cut.exc # "none" THEN Out(s, io1, cut.exc, NoValue)
    ELSE IF convertExc(s, cut.df, rows, rawData) # "none"
    THEN Out(s, io1, convertExc(s, cut.df, rows, rawData), NoValue)
    ELSE
    LET conv == [cut.df EXCEPT
                   !.cols = [i \in 1..Len(@) |-> postProcess(@[i], s._dtconvert)]]
        cn == s._info1[1].columnNames
    IN
    IF ~cn.null /\ Len(cn.names) > 0
       /\ \E i \in 1..Len(cn.names) : \A k \in 1..Len(conv.cols) : conv.cols[k].name # cn.names[i]
    THEN Out(s, io1, "KeyError", NoValue)
    ELSE
    LET df == IF ~cn.null /\ Len(cn.names) > 0
              THEN [conv EXCEPT !.cols = reorder(@, cn.names)]
              ELSE conv
    IN Out(IF s._datapersistent THEN [s EXCEPT !._data = df] ELSE s, io1, "none", Frame(df))

(***************************************************************************)
(* __portalUse (lines 388-402) and __getColumns (lines 297-335).  env is   *)
(* what the outside answers during the call: whether the local file        *)
(* exists, the status of the remote response, by how many bytes the buffer *)
(* served misses the planned length, whether the usage request gets        *)
(* through, and at which positions of the unpacked sequence the buffer     *)
(* holds an int that is no code point (nochr) or a value that cannot be    *)
(* converted to a datetime (nodate).                                       *)
(***************************************************************************)
__portalUse(s, io, env) ==
    IF ~s._dobjValid THEN Out(s, io, "AttributeError", NoValue)
    ELSE Out(s, [io EXCEPT !.portal = @ + 1],
             IF env.portal = "ok" THEN "none" ELSE "ConnectionError", NoValue)

Content(s, src, env) ==
    LET planned == calcsize(s._dtypeStruct)
    IN [src |-> src, len |-> IF planned + env.skew < 0 THEN 0 ELSE planned + env.skew,
        nochr |-> env.nochr, nodate |-> env.nodate]

\* an unpacking that leaves a frame without columns in the cache when it fails
unpackFetched_partial(used, content) ==
    IF used.exc # "none" THEN used
    ELSE LET o == __unpackRawData(used.self, used.io, content)
         IN IF o.exc = "none" THEN o
            ELSE [o EXCEPT !.self._data = [src |-> content.src, cols |-> <<>>, rows |-> 0]]

\* lines 334-335: the usage request, then the unpacking of content
unpackFetched(used, content) ==
    IF used.exc # "none" THEN used
    ELSE __unpackRawData(used.self, used.io, content)

\* lines 315-335, after the local file was found or the remote answer was read
afterFetch(got, env) ==
    IF got.exc # "none" THEN got
    ELSE unpackFetched(__portalUse(got.self, got.io, env),
                       Content(got.self, IF env.local THEN got.self._dobj
                                         ELSE got.self._json.tableId, env))

\* lines 315-331: a local file resets the selection and re-runs __getPayload;
\* otherwise the payload is requested and the response status is raised
fetch(s, io, env, st) ==
    IF env.local
    THEN __getPayload([s EXCEPT !._islocal = "True", !._colSelected = NoneSel],
                      [io EXCEPT !.fetch = "local"], st)
    ELSE Out([s EXCEPT !._islocal = "False"],
             [io EXCEPT !.fetch = IF env.status = "ok" THEN "remote" ELSE "failed"],
             IF env.status = "ok" THEN "none" ELSE "HTTPError", NoValue)

__getColumns(s0, io0, env, st) ==
    IF Len(s0._info2) = 0
    THEN Out(s0, [io0 EXCEPT !.sparql = @ + 1], "IndexError", NoValue)
    ELSE afterFetch(fetch(s0, [io0 EXCEPT !.sparql = @ + 1], env, st), env)

(***************************************************************************)
(* getColumns (lines 157-178); get() and the data property call it with    *)
(* columns = None.                                                         *)
(***************************************************************************)
\* lines 175-178: the payload is read if the handle is valid
returnColumns(pay, env, st) ==
    IF pay.exc # "none" THEN pay
    ELSE IF pay.self._dobjValid THEN __getColumns(pay.self, pay.io, env, st)
    ELSE Out(pay.self, pay.io, "none", False)

\* lines 171-172: __getPayload runs if __setColumns returned True
refreshPayload(set, st) ==
    IF set.exc = "none" /\ set.ret = True
    THEN __getPayload(set.self, set.io, st)
    ELSE set

getColumns(s, columns, env, st) ==
    IF ~empty(s._data) /\ s._datapersistent THEN Out(s, NoIO, "none", Frame(s._data))
    ELSE IF (columns.none \/ Len(columns.list) = 0) /\ s._dobjValid
    THEN __getColumns(s, NoIO, env, st)
    ELSE returnColumns(
             refreshPayload(IF ~columns.none /\ Len(columns.list) > 0
                            THEN __setColumns(s, NoIO, columns)
                            ELSE Out(s, NoIO, "none", False), st),
             env, st)

(***************************************************************************)
(* The metadata collaborator (RunSparql and sparqls, not among the         *)
(* sources): per identifier, the rows of cpbGetInfo (none, or one), the    *)
(* rows of cpbGetSchemaDetail for its object specification, the citation.  *)
(***************************************************************************)
InfoRow(id, nRows, columnNames) ==
    [dobj |-> id, objSpec |-> id, nRows |-> nRows, columnNames |-> columnNames]

DeclRow(colName, valFormat, isRegex) ==
    [idx |-> 0, colName |-> colName, valFormat |-> valFormat, isRegex |-> isRegex,
     objFormat |-> "asciiAtcProductTimeSer"]

Meta(info1, info2) == [info1 |-> info1, info2 |-> info2, cit |-> "cite me"]

\* the objects of the facade specification:
\*   A: three literal columns, no realized-name list, two rows
\*   B: a realized-name list in declared order b, a; column c is optional and absent
\*   Z: unknown to the metadata store (cpbGetInfo returns no row)
Catalog ==
    [id \in {"A", "B", "Z"} |->
       CASE id = "A" ->
              Meta(<< InfoRow("A", 2, NullNames) >>,
                   << DeclRow("co2", "float64", "null"),
                      DeclRow("TIMESTAMP", "float64", "null"),
                      DeclRow("Flag", "bmpChar", "null") >>)
         [] id = "B" ->
              Meta(<< InfoRow("B", 1, Names(<< "b", "a" >>)) >>,
                   << DeclRow("a", "int32", "null"),
                      DeclRow("b", "float64", "null"),
                      DeclRow("c", "int32", "null") >>)
         [] OTHER -> Meta(<<>>, <<>>)]

SeqsUpTo(S, n) == UNION {[1..k -> S] : k \in 0..n}
\* the orders of n things
Orders(n) == {p \in [1..n -> 1..n] : \A i, j \in 1..n : i # j => p[i] # p[j]}

\* the inputs of the resolver specification: every declaration list of up to
\* MaxDecl literal or pattern columns, against no realized-name list or any
\* list of up to MaxReal realized names
LiteralDecls ==
    {DeclRow(n, "float64", "null") : n \in {"a1", "a2", "b"}} \cup {DeclRow("b", "int32", "null")}
PatternDecls == {DeclRow("a.", "bmpChar", "true"), DeclRow(".*", "int32", "true")}
RealizedLists ==
    {NullNames} \cup {Names(s) : s \in SeqsUpTo({"a1", "a2", "b"}, MaxReal)}
ResolverStores ==
    {[id \in {"X"} |-> Meta(<< InfoRow("X", 1, cn) >>, decl)] :
        cn \in RealizedLists, decl \in SeqsUpTo(LiteralDecls \cup PatternDecls, MaxDecl)}

(***************************************************************************)
(* icoscp.country (src/icoscp/country.py).  A text is the sequence of its  *)
(* characters, so that str.lower() and the substring test `in` are         *)
(* computed character by character.                                        *)
(***************************************************************************)
\* str.lower() of one character, for the letters the model uses
lowerChar(c) ==
    CASE c = "C" -> "c" [] c = "E" -> "e" [] c = "G" -> "g" [] c = "H" -> "h"
      [] c = "R" -> "r" [] c = "S" -> "s" [] c = "X" -> "x" [] c = "Y" -> "y"
      [] OTHER -> c

lower(text) == [i \in 1..Len(text) |-> lowerChar(text[i])]

\* a in b, for str
contains(a, b) ==
    \E k \in 0..(Len(b) - Len(a)) : SubSeq(b, k + 1, k + Len(a)) = a

\* str(x) of a str in a list or dict: the text in quotes
quoted(text) == << "'" >> \o text \o << "'" >>

\* the bundled dataset countries.json (not among the sources), three of its
\* records with the fields the lookups read
Country(cca2, cca3, name, altSpellings) ==
    [cca2 |-> cca2, cca3 |-> cca3, name |-> name, altSpellings |-> altSpellings]

countries ==
    << Country(<< "G", "R" >>, << "G", "R", "C" >>,
               << "G", "r", "e", "e", "c", "e" >>,
               << "H", "e", "l", "l", "e", "n", "i", "c" >>),
       Country(<< "S", "C" >>, << "S", "Y", "C" >>,
               << "S", "e", "y", "c", "h", "e", "l", "l", "e", "s" >>,
               << "S", "e", "s", "e", "l" >>),
       Country(<< "C", "H" >>, << "C", "H", "E" >>,
               << "S", "w", "i", "s", "s" >>,
               << "S", "c", "h", "w", "e", "i", "z" >>) >>

\* str(ctn): the dict as text
str_ctn(ctn) ==
    << "{", "'", "n", "a", "m", "e", "'", ":", " " >> \o quoted(ctn.name)
      \o << ",", " ", "'", "c", "c", "a", "2", "'", ":", " " >> \o quoted(ctn.cca2)
      \o << ",", " ", "'", "c", "c", "a", "3", "'", ":", " " >> \o quoted(ctn.cca3)
      \o << ",", " ", "'", "a", "l", "t", "S", "p", "e", "l", "l", "i", "n", "g", "s", "'", ":", " ", "[" >> \o quoted(ctn.altSpellings)
      \o << "]", "}" >>

\* what country.get returns: a record (dict), a list of records, or False
NoCountry == [kind |-> "False", items |-> <<>>]
\* lines 96-103, 113-120, 131-138: False, the single record, or the list
found(country) ==
    IF Len(country) = 0 THEN NoCountry
    ELSE IF Len(country) = 1 THEN [kind |-> "dict", items |-> country]
    ELSE [kind |-> "list", items |-> country]

\* lines 90-103
_c_search(search, ctns) ==
    LET hit(ctn) == contains(lower(search), lower(str_ctn(ctn)))
    IN found(SelectSeq(ctns, hit))

\* lines 106-120
_c_code(code, ctns) ==
    LET hit(ctn) == lower(code) = lower(ctn.cca2) \/ lower(code) = lower(ctn.cca3)
    IN found(SelectSeq(ctns, hit))

\* lines 122-138
_c_name(name, ctns) ==
    LET hit(ctn) == \/ contains(lower(name), lower(ctn.name))
                    \/ contains(lower(name), lower(<< "[" >> \o quoted(ctn.altSpellings)
                                                            \o << "]" >>))
    IN found(SelectSeq(ctns, hit))

\* outcome of a call of country.py: the requests sent in order, the
\* exception raised, the value returned
COut(requests, exc, ret) == [requests |-> requests, exc |-> exc, ret |-> ret]
NoReturn == [kind |-> "None", items |-> <<>>]
CountryCode(cc) == [kind |-> "str", items |-> << cc >>]

\* what a geocoding service answers to requests.get: the call raises a
\* RequestException, or a response arrives with a status and a JSON object
\* that has or lacks the key 'error' and has no 'address', an 'address'
\* without 'country_code', or an 'address' with the country code cc
Raised == [raised |-> TRUE, status |-> 0, error |-> FALSE, address |-> "none", cc |-> <<>>]
Response(status, error, address, cc) ==
    [raised |-> FALSE, status |-> status, error |-> error, address |-> address, cc |-> cc]

\* one requests.get: the service, whether the URL carries zoom=3, the answer
Request(service, zoom_3, answer) ==
    [service |-> service, zoom |-> zoom_3, answer |-> answer]

\* json['address']['country_code'] (lines 152, 175, 196): KeyError without the key
country_code(requests, a) ==
    IF a.address = "code" THEN COut(requests, "none", CountryCode(a.cc))
    ELSE COut(requests, "KeyError", NoReturn)

\* lines 150-151, 173-174: status 200, no 'error' and an 'address'
icosUsable(a) == ~a.raised /\ a.status = 200 /\ ~a.error /\ a.address # "none"

\* lines 189-202: the request to nominatim.openstreetmap.org
external(requests, ans) ==
    IF ~ans.osm.raised /\ ans.osm.status = 200 /\ ans.osm.address # "none"
    THEN country_code(Append(requests, Request("osm", TRUE, ans.osm)), ans.osm)
    ELSE COut(Append(requests, Request("osm", TRUE, ans.osm)), "none", NoCountry)

\* lines 168-186: the request to nominatim.icos-cp.eu without zoom
icosNoZoom(requests, ans) ==
    IF icosUsable(ans.icos)
    THEN country_code(Append(requests, Request("icos", FALSE, ans.icos)), ans.icos)
    ELSE external(Append(requests, Request("icos", FALSE, ans.icos)), ans)

\* lines 141-202; ans holds the answers of the three requests it may send
_c_reverse(latlon, ans) ==
    IF icosUsable(ans.icos3)
    THEN country_code(<< Request("icos", TRUE, ans.icos3) >>, ans.icos3)
    ELSE IF ~ans.icos3.raised /\ ans.icos3.status = 200
         THEN icosNoZoom(<< Request("icos", TRUE, ans.icos3) >>, ans)
         ELSE external(<< Request("icos", TRUE, ans.icos3) >>, ans)

\* a keyword argument of get: absent, or given with a value
Absent == [given |-> FALSE, text |-> <<>>, list |-> FALSE, len |-> 0]
Text(text) == [given |-> TRUE, text |-> text, list |-> FALSE, len |-> 0]
\* latlon: a list of len numbers, or a value that is not a list
LatLon(list, len) == [given |-> TRUE, text |-> <<>>, list |-> list, len |-> len]

\* lines 85-88, after _c_reverse has returned
lookupReversed(r, ctns) ==
    IF r.exc # "none" THEN r
    ELSE IF r.ret.kind = "str" /\ Len(r.ret.items[1]) > 0
         THEN COut(r.requests, "none", _c_code(r.ret.items[1], ctns))
         ELSE COut(r.requests, "none", NoCountry)

\* lines 22-88
get(kwargs, ans) ==
    IF ~kwargs.code.given /\ ~kwargs.name.given /\ ~kwargs.search.given /\ ~kwargs.latlon.given
    THEN COut(<<>>, "none", [kind |-> "list", items |-> countries])
    ELSE IF kwargs.code.given THEN COut(<<>>, "none", _c_code(kwargs.code.text, countries))
    ELSE IF kwargs.name.given THEN COut(<<>>, "none", _c_name(kwargs.name.text, countries))
    ELSE IF kwargs.search.given
         THEN COut(<<>>, "none", _c_search(kwargs.search.text, countries))
    ELSE IF kwargs.latlon.list /\ kwargs.latlon.len = 2
         THEN lookupReversed(_c_reverse(kwargs.latlon, ans), countries)
         ELSE COut(<<>>, "UnboundLocalError", NoReturn)

\* the keywords of the calls: codes, names and free texts with no, one and
\* several matches in the dataset; a latlon list of two numbers, a list of
\* one, and a value that is not a list
Kwargs ==
    [code   : {Absent, Text(<< "c", "h" >>), Text(<< "G", "R", "C" >>), Text(<< "x", "x" >>)},
     name   : {Absent, Text(<< "h", "e", "l", "l", "e" >>), Text(<< "S", "w", "i", "s", "s" >>), Text(<< "x", "x" >>)},
     search : {Absent, Text(<< "c", "c", "a", "2" >>), Text(<< "h", "e", "l", "l", "e", "n", "i", "c" >>), Text(<< "x", "x" >>)},
     latlon : {Absent, LatLon(TRUE, 2), LatLon(TRUE, 1), LatLon(FALSE, 0)}]

Answers ==
    {Raised, Response(500, FALSE, "none", <<>>),
     Response(200, TRUE, "none", <<>>), Response(200, FALSE, "none", <<>>),
     Response(200, FALSE, "nocode", <<>>),
     Response(200, TRUE, "code", << "g", "r" >>), Response(200, FALSE, "code", << "g", "r" >>),
     Response(200, FALSE, "code", << "x", "x" >>)}
AnswerSets == [icos3 : Answers, icos : Answers, osm : Answers]
NoAnswers == [icos3 |-> Raised, icos |-> Raised, osm |-> Raised]

\* no call of country.get
NoGet ==
    [kwargs |-> [code |-> Absent, name |-> Absent, search |-> Absent, latlon |-> Absent],
     ans |-> NoAnswers, done |-> TRUE, requests |-> <<>>, exc |-> "none", ret |-> NoReturn]

\* a call whose latlon can be looked up and is not preceded by code or name
AsksServices(kwargs) ==
    /\ ~kwargs.code.given /\ ~kwargs.name.given
    /\ kwargs.latlon.given /\ kwargs.latlon.list /\ kwargs.latlon.len = 2

\* country.get(**kwargs)
Get ==
    /\ ~lastGet.done
    /\ LET o == get(lastGet.kwargs, lastGet.ans)
       IN lastGet' = [lastGet EXCEPT !.done = TRUE, !.requests = o.requests,
                                     !.exc = o.exc, !.ret = o.ret]
    /\ UNCHANGED <<self, store, last>>

(***************************************************************************)
(* Public calls on the handle.                                             *)
(***************************************************************************)
Call(op, id, columns, o) ==
    [op |-> op, id |-> id, columns |-> columns,
     exc |-> o.exc, ret |-> o.ret, io |-> o.io]

NoCall ==
    [op |-> "__init__", id |-> "", columns |-> NoColumns,
     exc |-> "none", ret |-> NoValue, io |-> NoIO]

\* handle.dobj = id
SetDobj(id) ==
    \E o \in {dobj_setter(self, NoIO, id, store)} :
       /\ self' = o.self
       /\ last' = Call("dobj", id, NoColumns, o)
       /\ UNCHANGED <<store, lastGet>>

(***************************************************************************)
(* The resolver specification: a fresh handle is bound to one object whose *)
(* metadata is drawn from ResolverStores.                                  *)
(***************************************************************************)
InitResolve ==
    self = __init__ /\ last = NoCall /\ store \in ResolverStores /\ lastGet = NoGet

NextResolve == \E id \in DOMAIN store : SetDobj(id)

SpecResolve == InitResolve /\ [][NextResolve]_vars

(***************************************************************************)
(* The facade specification: one handle, the objects of Catalog.           *)
(***************************************************************************)
\* selectors: "flag" names column 0 of A and no column of B; 1 is a position of
\* both schemas; 3 is a position of neither
Selectors == {int(1), int(3), str("flag")}
\* the requests: None, or a list of one to MaxSel different selectors
ColumnArgs ==
    {NoColumns} \cup
    {Columns(l) : l \in {q \in SeqsUpTo(Selectors, MaxSel) :
                            /\ Len(q) > 0
                            /\ \A i, j \in 1..Len(q) : i # j => q[i] # q[j]}}
\* positions of the unpacked sequence: with two rows, the first scalar of the
\* first and of the second run
WidePositions == {1, 3}
FarPositions == {1, 3}
Env(local, status, skew, portal) ==
    [local |-> local, status |-> status, skew |-> skew, portal |-> portal,
     nochr |-> {}, nodate |-> {}]
\* a buffer of the planned length whose j-th scalar, if it is a 32-bit int,
\* is no code point (negative, or above 0x10FFFF)
EnvWide(local, j) == [Env(local, "ok", 0, "ok") EXCEPT !.nochr = {j}]
\* a buffer of the planned length whose scalars at FarPositions cannot be
\* converted to a datetime by the column that reads them
EnvFar(local) == [Env(local, "ok", 0, "ok") EXCEPT !.nodate = FarPositions]
\* the answers that differ in effect: a failed response carries no buffer, and
\* a failed usage request is raised before the buffer is looked at
Envs ==
    {Env(l, "ok", k, "ok") : l \in BOOLEAN, k \in (0 - MaxSkew)..MaxSkew}
    \cup {Env(l, "ok", 0, "error") : l \in BOOLEAN}
    \cup {Env(FALSE, "error", 0, "ok")}
    \cup {EnvFar(FALSE)}

\* handle.getColumns(columns); handle.get() and handle.data when columns is None
GetColumns(columns, env) ==
    \E o \in {getColumns(self, columns, env, store)} :
       /\ self' = o.self
       /\ last' = Call("getColumns", "", columns, o)
       /\ UNCHANGED <<store, lastGet>>

\* handle.dateTimeConvert = convert (lines 100-102)
SetDateTimeConvert(convert) ==
    /\ self' = [self EXCEPT !._dtconvert = convert]
    /\ last' = Call("dateTimeConvert", "", NoColumns, Out(self', NoIO, "none", NoValue))
    /\ UNCHANGED <<store, lastGet>>

Init == self = __init__ /\ last = NoCall /\ store = Catalog /\ lastGet = NoGet

Next ==
    \/ \E id \in DOMAIN store \cup {""} : SetDobj(id)
    \/ \E columns \in ColumnArgs, env \in Envs : GetColumns(columns, env)
    \/ \E convert \in BOOLEAN : SetDateTimeConvert(convert)

Spec == Init /\ [][Next]_vars

(***************************************************************************)
(* The decoder specification: one handle on one object X whose columns are *)
(* the first k names of DecodeNames, returned by the metadata query in     *)
(* that order (not the name order), with no declared-order list, with the  *)
(* list literal '[]' or with any order of its names as the declared order, *)
(* and with no rows or two; and an object declared by one pattern column   *)
(* and served with the list literal '[]'.                                  *)
(* Every payload request is answered with a buffer of the planned length.  *)
(***************************************************************************)
DecodeNames == << "c", "b", "a", "zz" >>
DecodeFormats == << "int32", "float64", "bmpChar", "float64" >>
DecodeDecl(k) == [i \in 1..k |-> DeclRow(DecodeNames[i], DecodeFormats[i], "null")]
DecodeOrders(k) ==
    {NullNames, Names(<<>>)}
    \cup {Names([i \in 1..k |-> DecodeNames[p[i]]]) : p \in Orders(k)}
\* an object declared by one pattern column, served with the list literal '[]'
DecodePattern == << DeclRow(".*", "float64", "true") >>
DecodeStores ==
    UNION {{[id \in {"X"} |-> Meta(<< InfoRow("X", n, cn) >>, DecodeDecl(k))] :
               n \in {0, 2}, cn \in DecodeOrders(k)} : k \in 1..MaxCols}
    \cup {[id \in {"X"} |-> Meta(<< InfoRow("X", n, Names(<<>>)) >>, DecodePattern)] :
             n \in {0, 2}}

\* selectors of the decoder specification: two positions and a name
DecodeSelectors == {int(0), int(1), str("C")}
DecodeArgs ==
    {NoColumns} \cup
    {Columns(l) : l \in {q \in SeqsUpTo(DecodeSelectors, MaxSel) :
                            /\ Len(q) > 0
                            /\ \A i, j \in 1..Len(q) : i # j => q[i] # q[j]}}
DecodeEnvs == {Env(l, "ok", 0, "ok") : l \in BOOLEAN}

InitDecode ==
    self = __init__ /\ last = NoCall /\ store \in DecodeStores /\ lastGet = NoGet

NextDecode ==
    \/ \E id \in DOMAIN store : SetDobj(id)
    \/ \E columns \in DecodeArgs, env \in DecodeEnvs : GetColumns(columns, env)

SpecDecode == InitDecode /\ [][NextDecode]_vars

(***************************************************************************)
(* The rebinding specification: one handle moved between objects whose     *)
(* schemas differ in length, and an object whose resolution aborts.        *)
(*   A, B: the objects of Catalog (three resolved columns, and two)        *)
(*   U:    two columns, the second of a value format the type mapping      *)
(*         does not know                                                   *)
(*   V:    a character column Flag and a 32-bit integer column b, two rows *)
(*   C:    a character column TIMESTAMP and a float column co2, two rows   *)
(* Every payload request is answered with a buffer of the planned length,  *)
(* whose 32-bit integers are code points or not.                           *)
(***************************************************************************)
RebindCatalog ==
    [id \in {"A", "B", "C", "U", "V"} |->
       CASE id = "U" ->
              Meta(<< InfoRow("U", 1, NullNames) >>,
                   << DeclRow("a", "int32", "null"),
                      DeclRow("b", "complex128", "null") >>)
         [] id = "V" ->
              Meta(<< InfoRow("V", 2, NullNames) >>,
                   << DeclRow("b", "int32", "null"),
                      DeclRow("Flag", "bmpChar", "null") >>)
         [] id = "C" ->
              Meta(<< InfoRow("C", 2, NullNames) >>,
                   << DeclRow("TIMESTAMP", "bmpChar", "null"),
                      DeclRow("co2", "float64", "null") >>)
         [] OTHER -> Catalog[id]]

\* selectors of the rebinding specification: 0 and 1 are positions of every
\* schema, 2 a position of the schema of A only
RebindSelectors == {int(0), int(1), int(2)}
RebindArgs ==
    {NoColumns} \cup
    {Columns(l) : l \in {q \in SeqsUpTo(RebindSelectors, MaxSel) :
                            /\ Len(q) > 0
                            /\ \A i, j \in 1..Len(q) : i # j => q[i] # q[j]}}

RebindEnvs ==
    DecodeEnvs \cup {EnvWide(l, j) : l \in BOOLEAN, j \in WidePositions}
               \cup {EnvFar(l) : l \in BOOLEAN}

InitRebind ==
    self = __init__ /\ last = NoCall /\ store = RebindCatalog /\ lastGet = NoGet

NextRebind ==
    \/ \E id \in DOMAIN store \cup {""} : SetDobj(id)
    \/ \E columns \in RebindArgs, env \in RebindEnvs : GetColumns(columns, env)

SpecRebind == InitRebind /\ [][NextRebind]_vars

(***************************************************************************)
(* The country specification: one call of country.get with keywords of     *)
(* Kwargs; the answers of the geocoding services vary for the calls whose   *)
(* latlon is a list of two numbers and comes with neither code nor name.   *)
(***************************************************************************)
InitCountry ==
    /\ self = __init__ /\ last = NoCall /\ store = Catalog
    /\ lastGet \in {[NoGet EXCEPT !.kwargs = k, !.ans = a, !.done = FALSE] :
                       <<k, a>> \in {q \in Kwargs \X AnswerSets :
                                        AsksServices(q[1]) \/ q[2] = NoAnswers}}

NextCountry == Get

SpecCountry == InitCountry /\ [][NextCountry]_vars

(***************************************************************************)
(* The states of the facade (spec 4.5), read off the handle.               *)
(***************************************************************************)
\* the metadata query for the current identifier returned no row
IsInvalid(s) == s._dobjSet /\ Len(store[s._dobj].info1) = 0

\* a selector that __setColumns can resolve against the schema of s
Resolvable(s, c) ==
    \/ c.t = "str" /\ \E i \in 1..Len(s._info2) : upper(s._info2[i].colName) = upper(c.s)
    \/ c.t = "int" /\ c.n \in 0..(Len(s._info2) - 1)

\* the indices a selection stands for: None and [] stand for all n columns
Selected(sel, n) == IF Truthy(sel) THEN sel.idx ELSE range(n)

NameFormat(rows) ==
    [i \in 1..Len(rows) |-> [colName |-> rows[i].colName, valFormat |-> rows[i].valFormat]]

\* how many rows of a frame carry a name
Count(rows, name) == Cardinality({i \in 1..Len(rows) : rows[i].colName = name})

(***************************************************************************)
(* C1.  On an Invalid handle (the metadata query for its current           *)
(* identifier returned no row) a data access returns False, fetches and    *)
(* decodes nothing and returns no table.                                   *)
(***************************************************************************)
C1_InvalidAccessIsNegative ==
    (last.op = "getColumns" /\ IsInvalid(self)) =>
        /\ last.ret = False
        /\ last.io.fetch = "none"
        /\ last.io.unpack = 0

(***************************************************************************)
(* C2.  getColumns with a resolvable column list on a Valid handle re-runs *)
(* the schema/plan derivation and returns a table decoded by that call,    *)
(* not a table cached earlier.                                             *)
(***************************************************************************)
C2_ReselectionDiscardsCache ==
    ( /\ last.op = "getColumns"
      /\ ~last.columns.none
      /\ \A i \in 1..Len(last.columns.list) : Resolvable(self, last.columns.list[i])
      /\ self._dobjSet
      /\ self._dobjValid
      /\ last.exc = "none" ) =>
        /\ last.io.sparql >= 3
        /\ last.io.unpack = 1
        /\ last.ret.kind = "DataFrame"

(***************************************************************************)
(* C3.  A selection request holding an unresolvable selector (a name not   *)
(* in the schema, an index outside it) leaves the selection as it was and  *)
(* reports failure; no resolvable part of it is applied.  Stated for the   *)
(* calls that reach the selection (no cached table is returned instead).   *)
(***************************************************************************)
C3_SelectionFailsClosed ==
    [][ ( /\ last'.op = "getColumns"
          /\ ~last'.columns.none
          /\ empty(self._data)
          /\ \E i \in 1..Len(last'.columns.list) : ~Resolvable(self, last'.columns.list[i]) )
        => /\ Selected(self'._colSelected, Len(self'._info2))
                = Selected(self._colSelected, Len(self._info2))
           /\ (last'.exc # "none" \/ last'.ret = False) ]_vars

(***************************************************************************)
(* C4.  A buffer whose length differs from the length the plan implies,    *)
(* shorter or longer, is never decoded into a table: the decoder raises.   *)
(***************************************************************************)
C4_LengthMismatchFails ==
    (last.op = "getColumns" /\ last.io.unpack = 1 /\ last.io.rawlen # last.io.planned) =>
        /\ last.exc # "none"
        /\ last.ret.kind # "DataFrame"

(***************************************************************************)
(* C5.  Every successful fetch sends one usage-accounting request, and a   *)
(* failure of that request does not fail the data access.                  *)
(***************************************************************************)
C5_AccountingNeverFailsAccess ==
    (last.op = "getColumns" /\ last.io.fetch \in {"local", "remote"}) =>
        /\ last.io.portal = 1
        /\ last.exc # "ConnectionError"

(***************************************************************************)
(* C6.  From one state of the handle, the same request served from the     *)
(* local file and served by the remote endpoint yields tables with the     *)
(* same columns in the same order, and leaves the same column selection.   *)
(***************************************************************************)
C6_LocalRemoteInterchangeable ==
    \A columns \in ColumnArgs :
        LET loc == getColumns(self, columns, Env(TRUE, "ok", 0, "ok"), store)
            rem == getColumns(self, columns, Env(FALSE, "ok", 0, "ok"), store)
        IN /\ loc.ret.kind = rem.ret.kind
           /\ loc.ret.df.cols = rem.ret.df.cols
           /\ loc.self._colSelected = rem.self._colSelected

(***************************************************************************)
(* C7.  Resolution succeeds (the handle becomes Valid) only if every       *)
(* realized name is in the resolved schema exactly once.                   *)
(***************************************************************************)
C7_ResolutionValidates ==
    (last.op = "dobj" /\ self._dobjValid /\ ~store[self._dobj].info1[1].columnNames.null) =>
        \A n \in Elems(store[self._dobj].info1[1].columnNames.names) :
            Count(self._info2, n) = 1

\* the format of the first declaration, in the order of the metadata rows,
\* that declares name: literally, or by a pattern that matches it
Declares(d, name) ==
    IF d.isRegex = "true" THEN re_match(d.colName, name) ELSE d.colName = name
FirstFormat(decl, name) ==
    decl[CHOOSE i \in 1..Len(decl) :
            /\ Declares(decl[i], name)
            /\ \A j \in 1..(i - 1) : ~Declares(decl[j], name)].valFormat

(***************************************************************************)
(* C8.  A realized name that two or more declarations match (patterns, or  *)
(* a pattern and a literal) is in the resolved schema exactly once, with   *)
(* the format of the first declaration that matches it.                    *)
(***************************************************************************)
C8_FirstMatchWins ==
    (last.op = "dobj" /\ last.exc = "none" /\ ~store[self._dobj].info1[1].columnNames.null) =>
        \A n \in Elems(store[self._dobj].info1[1].columnNames.names) :
            LET decl == store[self._dobj].info2 IN
            ( /\ Cardinality({i \in 1..Len(decl) : Declares(decl[i], n)}) >= 2
              /\ Cardinality({i \in 1..Len(decl) : decl[i].isRegex # "true"
                                                    /\ decl[i].colName = n}) <= 1 ) =>
                /\ Count(self._info2, n) = 1
                /\ \A k \in 1..Len(self._info2) :
                      self._info2[k].colName = n =>
                          self._info2[k].valFormat = FirstFormat(decl, n)

(***************************************************************************)
(* C9.  With a realized-name list, resolution keeps every declared literal *)
(* column and every pattern-expanded column whose name is realized, and    *)
(* removes every one whose name is not; the drop step never fails.         *)
(***************************************************************************)
C9_DropsExactlyUnrealized ==
    ( /\ last.op = "dobj"
      /\ ~store[self._dobj].info1[1].columnNames.null
      /\ Len(store[self._dobj].info1[1].columnNames.names) > 0 ) =>
        LET decl == store[self._dobj].info2
            realized == Elems(store[self._dobj].info1[1].columnNames.names)
        IN /\ last.exc # "KeyError"
           /\ {self._info2[k].colName : k \in 1..Len(self._info2)}
                = {n \in realized : \E i \in 1..Len(decl) : Declares(decl[i], n)}

\* the rows of a frame are in ascending order of name
IsSortedByName(rows) ==
    \A i, j \in 1..Len(rows) : i < j => Rank(rows[i].colName) < Rank(rows[j].colName)

\* declarations without pattern columns, no name declared twice, every
\* declared name realized
LiteralAndRealized(meta) ==
    /\ \A i \in 1..Len(meta.info2) : meta.info2[i].isRegex # "true"
    /\ \A i, j \in 1..Len(meta.info2) :
          i # j => meta.info2[i].colName # meta.info2[j].colName
    /\ \/ meta.info1[1].columnNames.null
       \/ \A i \in 1..Len(meta.info2) :
             meta.info2[i].colName \in Elems(meta.info1[1].columnNames.names)

(***************************************************************************)
(* C10.  For declarations without pattern columns, all realized, the       *)
(* resolved schema is the declared set in ascending order of name, and it  *)
(* is the same for every order in which the metadata query returns the     *)
(* declarations.                                                           *)
(***************************************************************************)
C10_ResolvedIsNameSorted ==
    (last.op = "dobj" /\ LiteralAndRealized(store[self._dobj])) =>
        LET decl == store[self._dobj].info2 IN
        /\ IsSortedByName(self._info2)
        /\ Len(self._info2) = Len(decl)
        /\ Elems(NameFormat(self._info2)) = Elems(NameFormat(decl))
        /\ \A p \in Orders(Len(decl)) :
              LET permuted == [store EXCEPT ![self._dobj].info2 =
                                  [i \in 1..Len(decl) |-> decl[p[i]]]]
              IN NameFormat(dobj_setter(__init__, NoIO, self._dobj, permuted).self._info2)
                    = NameFormat(self._info2)

\* literal columns declared out of name order, all realized, were resolved
C10_Witness ==
    /\ last.op = "dobj"
    /\ LiteralAndRealized(store[self._dobj])
    /\ self._dobjValid
    /\ Len(store[self._dobj].info2) >= 2
    /\ ~IsSortedByName(store[self._dobj].info2)
    /\ ~store[self._dobj].info1[1].columnNames.null

\* the schema position a resolvable selector names
SelectorIndex(s, c) ==
    IF c.t = "str"
    THEN index([i \in 1..Len(s._info2) |-> upper(s._info2[i].colName)], upper(c.s))
    ELSE c.n

\* the schema positions a list of resolvable selectors names
SelectedBy(s, list) == {SelectorIndex(s, list[i]) : i \in 1..Len(list)}

\* the column names of a table, as a set and in order
ColumnSet(df) == {df.cols[k].name : k \in 1..Len(df.cols)}
ColumnOrder(df) == [k \in 1..Len(df.cols) |-> df.cols[k].name]

(***************************************************************************)
(* C11.  On a Valid handle without a cached table, a data access that      *)
(* selects a resolvable proper subset of the schema's columns succeeds and *)
(* returns a table of exactly the selected columns, also for an object     *)
(* with a declared column-name list.  Stated for the accesses served by    *)
(* the remote endpoint with a buffer of the planned length and a usage     *)
(* request that got through.                                               *)
(***************************************************************************)
C11_SelectionNarrowsColumns ==
    [][ ( /\ last'.op = "getColumns"
          /\ self._dobjSet /\ self._dobjValid /\ empty(self._data)
          /\ ~last'.columns.none
          /\ \A i \in 1..Len(last'.columns.list) : Resolvable(self, last'.columns.list[i])
          /\ Cardinality(SelectedBy(self, last'.columns.list)) < Len(self._info2)
          /\ last'.io.fetch = "remote"
          /\ last'.io.rawlen = last'.io.planned
          /\ last'.exc # "ConnectionError" )
        => /\ last'.exc = "none"
           /\ last'.ret.kind = "DataFrame"
           /\ ColumnSet(last'.ret.df)
                = {self._info2[i + 1].colName : i \in SelectedBy(self, last'.columns.list)} ]_vars

\* the declared-order list of the object the handle is bound to, cleaned as
\* lines 219-225 clean it (the list literal '[]' is the list of one empty name)
DeclaredOrder(s) ==
    LET raw == store[s._dobj].info1[1].columnNames
    IN IF raw.null THEN raw ELSE Names(cleanColumnNames(raw.names))

(***************************************************************************)
(* C12.  The last step of a decode puts the assembled columns in the       *)
(* declared order, undoing the name sort of the wire layout: a table a     *)
(* decode returns for an object with a declared-order list has its columns *)
(* in exactly that order.                                                  *)
(***************************************************************************)
C12_DecodeRestoresDeclaredOrder ==
    ( /\ last.op = "getColumns"
      /\ last.io.unpack = 1
      /\ last.ret.kind = "DataFrame"
      /\ ~DeclaredOrder(self).null ) =>
        ColumnOrder(last.ret.df) = DeclaredOrder(self).names

\* declared [b, a, c] over the wire order [a, b, c] was decoded
C12_Witness ==
    /\ last.op = "getColumns"
    /\ last.io.unpack = 1
    /\ last.ret.kind = "DataFrame"
    /\ ~DeclaredOrder(self).null
    /\ DeclaredOrder(self).names = << "b", "a", "c" >>
    /\ colNames(self) = << "a", "b", "c" >>
    /\ ColumnOrder(last.ret.df) = << "b", "a", "c" >>

(***************************************************************************)
(* C13.  A data access on a Valid handle that fails in the remote fetch    *)
(* (a non-success status) or in the unpacking raises (it does not return   *)
(* False or a table) and leaves the cached table exactly as it was before  *)
(* the call.                                                               *)
(***************************************************************************)
C13_FailureLeavesCache ==
    [][ ( /\ last'.op = "getColumns"
          /\ self._dobjSet /\ self._dobjValid
          /\ \/ last'.io.fetch = "failed"
             \/ last'.io.unpack = 1 /\ last'.exc # "none" )
        => /\ last'.exc # "none"
           /\ last'.ret.kind = "None"
           /\ self'._data = self._data ]_vars

\* an unpacking failed (the buffer was shorter than planned) on a Valid handle
C13_Witness ==
    /\ last.op = "getColumns"
    /\ self._dobjSet /\ self._dobjValid
    /\ last.io.unpack = 1
    /\ last.io.rawlen < last.io.planned
    /\ last.exc = "struct.error"
    /\ empty(self._data)

(***************************************************************************)
(* C14.  With persistence on, once a data access has returned a table,     *)
(* the next data access without a selection returns that same table and    *)
(* sends no metadata query, no payload request and no usage request,       *)
(* whatever the row count of the object, zero included.                    *)
(***************************************************************************)
C14_CachedTableIsRetained ==
    [][ ( /\ last.op = "getColumns"
          /\ last.ret.kind = "DataFrame"
          /\ self._datapersistent
          /\ last'.op = "getColumns"
          /\ last'.columns.none )
        => /\ last'.ret = last.ret
           /\ last'.io = NoIO ]_vars

(***************************************************************************)
(* C15.  Setting a non-empty identifier runs the metadata resolution       *)
(* before the setter returns: the handle is Valid after it if the metadata *)
(* query returned a row and the resolution succeeded, Invalid if it        *)
(* returned none.  An Invalid handle stays Invalid under data accesses,    *)
(* with or without a selection, and a handle that is not Valid becomes     *)
(* Valid only by setting an identifier whose metadata resolves.            *)
(***************************************************************************)
C15_FacadeTransitions ==
    [][ /\ (last'.op = "dobj" /\ last'.id # "") =>
              /\ last'.io.sparql >= 1
              /\ Len(store[last'.id].info1) = 0 => (IsInvalid(self') /\ ~self'._dobjValid)
              /\ (Len(store[last'.id].info1) > 0 /\ last'.exc = "none") => self'._dobjValid
        /\ (IsInvalid(self) /\ ~self._dobjValid /\ last'.op = "getColumns") =>
              (IsInvalid(self') /\ ~self'._dobjValid)
        /\ (~self._dobjValid /\ self'._dobjValid) =>
              /\ last'.op = "dobj" /\ last'.id # "" /\ last'.exc = "none"
              /\ Len(store[last'.id].info1) > 0 ]_vars

\* a data access with a selection was made on an Invalid handle
C15_Witness ==
    /\ last.op = "getColumns"
    /\ ~last.columns.none
    /\ IsInvalid(self)
    /\ ~self._dobjValid
    /\ last.ret = False

\* the names of Alphabet that differ in letter case only
CaseClasses == {{"FLAG", "Flag", "flag"}, {"ZZ", "zz"}}
\* the spellings of a name
CaseForms(name) == UNION {c \in CaseClasses : name \in c} \cup {name}

\* the requests that differ from a request in the letter case of its names
Variants(list) ==
    LET forms == UNION {CaseForms(list[i].s) : i \in 1..Len(list)}
    IN {[i \in 1..Len(list) |-> IF list[i].t = "str" THEN str(f[i]) ELSE list[i]] :
           f \in {g \in [1..Len(list) -> forms] :
                     \A i \in 1..Len(list) : g[i] \in CaseForms(list[i].s)}}

\* the schema positions a request names: an integer names itself, a name
\* the first column whose name has the same letters
Positions(s, list) ==
    {IF list[i].t = "int" THEN list[i].n
     ELSE (CHOOSE k \in 1..Len(s._info2) :
              /\ s._info2[k].colName \in CaseForms(list[i].s)
              /\ \A j \in 1..(k - 1) : s._info2[j].colName \notin CaseForms(list[i].s)) - 1
       : i \in 1..Len(list)}

(***************************************************************************)
(* C16.  Selection by name is case-insensitive and selection by integer is *)
(* by schema position: a request selects the same indices in whatever      *)
(* letter case its names are written, and a request of resolvable          *)
(* selectors selects the positions its integers name and the positions of  *)
(* the columns its names spell.  Stated for the accesses that reach the    *)
(* selection and do not read the local file.                               *)
(***************************************************************************)
C16_SelectionIgnoresCase ==
    [][ ( /\ last'.op = "getColumns"
          /\ self._dobjSet /\ self._dobjValid /\ empty(self._data)
          /\ ~last'.columns.none
          /\ last'.io.fetch # "local" )
        => /\ \A v \in Variants(last'.columns.list) :
                 \A r \in {__setColumns(self, NoIO, Columns(v))} :
                    /\ r.exc = "none"
                          => Elems(r.self._colSelected.idx) = Elems(self'._colSelected.idx)
                    /\ r.exc # "none" => last'.exc = r.exc
           /\ (\A i \in 1..Len(last'.columns.list) : Resolvable(self, last'.columns.list[i]))
                 => Elems(self'._colSelected.idx) = Positions(self, last'.columns.list) ]_vars

\* on a schema with the column Flag the request ["flag"] selected its position
C16_Witness ==
    /\ last.op = "getColumns"
    /\ last.columns = Columns(<< str("flag") >>)
    /\ last.io.fetch = "remote"
    /\ self._dobjValid
    /\ colNames(self)[1] = "Flag"
    /\ self._colSelected = Sel(<< 0 >>)

(***************************************************************************)
(* C19.  The unpack descriptor, the remote-fetch descriptor and the        *)
(* decoder use one column sequence: for every table a decode returns, the  *)
(* descriptor has one token per selected index, of the kind of that        *)
(* column, columnNumbers is the selection, and the k-th run of rowCount    *)
(* scalars is stored under the name of the k-th selected column, decoded   *)
(* by the kind of the k-th token.                                          *)
(***************************************************************************)
C19_PlanAndDecoderAgree ==
    (last.op = "getColumns" /\ last.io.unpack = 1 /\ last.ret.kind = "DataFrame") =>
        LET sel == self._colSelected.idx
            tokens == self._dtypeStruct.tokens
        IN /\ Len(tokens) = Len(sel)
           /\ self._json.columnNumbers = self._colSelected
           /\ \A k \in 1..Len(sel) :
                 tokens[k] = structTypes(self._colSchema[sel[k] + 1], self._info1[1].nRows)
           /\ {last.ret.df.cols[i].run : i \in 1..Len(last.ret.df.cols)}
                 = 0..(Len(sel) - 1)
           /\ \A i \in 1..Len(last.ret.df.cols) :
                 LET c == last.ret.df.cols[i] IN
                 c = postProcess([name |-> self._info2[sel[c.run + 1] + 1].colName,
                                  kind |-> IF tokens[c.run + 1].kind = "CHAR" THEN "str"
                                           ELSE tokens[c.run + 1].kind,
                                  run  |-> c.run], self._dtconvert)

\* the keywords in the order of the documented signature (lines 26-30)
DocOrder == << "code", "name", "latlon", "search" >>

Given(kwargs, k) ==
    CASE k = "code" -> kwargs.code.given
      [] k = "name" -> kwargs.name.given
      [] k = "latlon" -> kwargs.latlon.given
      [] OTHER -> kwargs.search.given

\* the outcome of the lookup of one keyword on its own (lines 71-86): what
\* it finds, or for a latlon that is not a list of two the UnboundLocalError
\* of line 85
Lookup(kwargs, ans, k) ==
    CASE k = "code" -> COut(<<>>, "none", _c_code(kwargs.code.text, countries))
      [] k = "name" -> COut(<<>>, "none", _c_name(kwargs.name.text, countries))
      [] k = "latlon" ->
            IF kwargs.latlon.list /\ kwargs.latlon.len = 2
            THEN lookupReversed(_c_reverse(kwargs.latlon, ans), countries)
            ELSE COut(<<>>, "UnboundLocalError", NoReturn)
      [] OTHER -> COut(<<>>, "none", _c_search(kwargs.search.text, countries))

\* the keywords given whose lookup finds a result, in the documented order
Hits(kwargs, ans) ==
    LET hit(k) == /\ Given(kwargs, k)
                  /\ Lookup(kwargs, ans, k).exc = "none"
                  /\ Lookup(kwargs, ans, k).ret.kind \in {"dict", "list"}
    IN SelectSeq(DocOrder, hit)

(***************************************************************************)
(* C17.  A call of country.get with more than one keyword returns what the *)
(* first keyword in the order code, name, latlon, search that finds a      *)
(* result finds; it returns False only if none of the keywords given finds *)
(* a result.                                                               *)
(***************************************************************************)
C17_FirstKeywordThatFinds ==
    ( /\ lastGet.done
      /\ lastGet.exc = "none"
      /\ Cardinality({k \in Elems(DocOrder) : Given(lastGet.kwargs, k)}) > 1 ) =>
        lastGet.ret =
            IF Len(Hits(lastGet.kwargs, lastGet.ans)) = 0 THEN NoCountry
            ELSE Lookup(lastGet.kwargs, lastGet.ans,
                        Hits(lastGet.kwargs, lastGet.ans)[1]).ret

(***************************************************************************)
(* C18.  country.get never raises and returns a single record when exactly *)
(* one country matches, a list of records when several match or no         *)
(* keyword is given, and False when nothing matches: for every keyword,    *)
(* also for a latlon that is not a list of two elements or that no service *)
(* can reverse-geocode.                                                    *)
(***************************************************************************)
C18_ReturnsRecordListOrFalse ==
    lastGet.done =>
        /\ lastGet.exc = "none"
        /\ \/ lastGet.ret.kind = "False" /\ Len(lastGet.ret.items) = 0
           \/ lastGet.ret.kind = "dict" /\ Len(lastGet.ret.items) = 1
           \/ lastGet.ret.kind = "list" /\ Len(lastGet.ret.items) > 1

\* the request chain of a call: at most three requests, ICOS with zoom 3
\* first, ICOS without zoom only second and only after a first answer with
\* status 200 and no usable address, OpenStreetMap only last and only after
\* no ICOS answer gave a country code, no request sent twice
ChainInOrder(requests) ==
    /\ Len(requests) \in 1..3
    /\ requests[1].service = "icos" /\ requests[1].zoom
    /\ \A i \in 2..Len(requests) :
          \/ /\ requests[i].service = "icos" /\ ~requests[i].zoom
             /\ i = 2
             /\ ~requests[1].answer.raised /\ requests[1].answer.status = 200
             /\ ~icosUsable(requests[1].answer)
          \/ /\ requests[i].service = "osm" /\ requests[i].zoom
             /\ i = Len(requests)
             /\ \A j \in 1..(i - 1) : ~icosUsable(requests[j].answer)
    /\ \A i, j \in 1..Len(requests) :
          i # j => <<requests[i].service, requests[i].zoom>>
                     # <<requests[j].service, requests[j].zoom>>

(***************************************************************************)
(* C20.  A reverse geocoding sends at most three requests, in the order    *)
(* ICOS with zoom 3, ICOS without zoom, OpenStreetMap: the second only     *)
(* after the first was answered with status 200 and no usable address, the *)
(* third only after no ICOS answer gave a country code, none twice; and    *)
(* _c_reverse ends with a country code or with False.                      *)
(***************************************************************************)
C20_ReverseChain ==
    (lastGet.done /\ Len(lastGet.requests) > 0) =>
        /\ ChainInOrder(lastGet.requests)
        /\ lastGet.requests = _c_reverse(lastGet.kwargs.latlon, lastGet.ans).requests
        /\ _c_reverse(lastGet.kwargs.latlon, lastGet.ans).exc = "none"
        /\ _c_reverse(lastGet.kwargs.latlon, lastGet.ans).ret.kind \in {"str", "False"}

(***************************************************************************)
(* C21.  With persistence on, a table returned by a data access was        *)
(* decoded from the payload of the identifier the handle holds when the    *)
(* access returns, never from the payload of an identifier set earlier.    *)
(***************************************************************************)
C21_TableOfCurrentIdentifier ==
    (last.op = "getColumns" /\ last.ret.kind = "DataFrame" /\ self._datapersistent)
        => last.ret.df.src = self._dobj

(***************************************************************************)
(* C24.  A handle is Valid only while an identifier is bound: valid is     *)
(* True only if the identifier-set flag is True, and a data access on a    *)
(* handle whose identifier was set to the empty string returns False and   *)
(* requests no payload.                                                    *)
(***************************************************************************)
C24_ValidOnlyWhileBound ==
    /\ valid(self) => self._dobjSet
    /\ (last.op = "getColumns" /\ ~self._dobjSet) =>
          (last.ret = False /\ last.io.fetch = "none")

\* what a handle freshly constructed on the identifier of s holds after its
\* resolution, the column selection of s carried over
Resolved(s) ==
    __getPayload([__init__ EXCEPT !._dobj = s._dobj, !._dobjSet = TRUE,
                                  !._colSelected = s._colSelected],
                 NoIO, store)

(***************************************************************************)
(* C22.  valid is True only if the schema, the unpack descriptor and the   *)
(* remote-fetch descriptor on the handle are the ones a complete           *)
(* resolution of the current identifier's metadata yields; when the        *)
(* resolution of a newly set identifier aborts with an error, valid does   *)
(* not stay True from the identifier set before.                           *)
(***************************************************************************)
C22_ValidMeansResolved ==
    /\ valid(self) =>
          /\ self._dobj \in DOMAIN store
          /\ Resolved(self).exc = "none"
          /\ self._colSchema = Resolved(self).self._colSchema
          /\ self._dtypeStruct = Resolved(self).self._dtypeStruct
          /\ self._json = Resolved(self).self._json
    /\ (last.op = "dobj" /\ last.id # "" /\ last.exc # "none") => ~valid(self)

\* the last call set an identifier and its resolution came to the unpack
\* plan (lines 270-272): the metadata query returned a row, the schema was
\* resolved and every declared format has a decode kind
PlanBuilt ==
    /\ last.op = "dobj" /\ last.id # ""
    /\ last.io.sparql >= 2
    /\ last.exc \in {"none", "IndexError"}

(***************************************************************************)
(* C23.  Whenever the unpack plan is built, every index of the handle's    *)
(* column selection is a position of the current resolved schema, also     *)
(* after setting an identifier whose schema has fewer columns than the one *)
(* the selection was made against.  Stated for the plan the setter builds. *)
(***************************************************************************)
C23_SelectionWithinSchema ==
    PlanBuilt =>
        /\ ~self._colSelected.none
        /\ \A k \in 1..Len(self._colSelected.idx) :
              self._colSelected.idx[k] \in 0..(Len(self._colSchema) - 1)

====
